---- MODULE Spec2Model ----
(***************************************************************************)
(* Model of server.js: the team registry (POST /create-team) and the       *)
(* socket.io room state machine (join-room, send-message, delete-message,  *)
(* disconnect).  Node runs each handler to completion, so every handler is *)
(* one atomic action.                                                      *)
(*                                                                         *)
(* JavaScript strings are sequences of one-character strings; the value    *)
(* undefined is the distinguished value Undefined.  Clients are modelled   *)
(* as always passing an ack callback; the value handed to it is recorded   *)
(* in last.ok / last.error.                                                *)
(***************************************************************************)
EXTENDS Integers, Sequences, FiniteSets, TLC

\* ------------------------------------------------------------------ bounds
NumConns == 2        \* sockets that connect during a run
MaxLog   == 2        \* join/send are explored while fewer messages are stored
MaxClock == 1        \* Date.now() takes the values 0..MaxClock
MaxRand  == 0        \* Math.floor(Math.random()*k) takes the values 0..MaxRand
MaxTeams == 2        \* create-team is explored while fewer teams exist
MaxCount == 2        \* join is explored while the room's counter is smaller

NameMax == 50        \* name.slice(0, 50)
CodeLen == 6         \* makeTeamCode(6)

Conns == 1..NumConns
Rands == 0..MaxRand

Undefined == <<"undefined">>

\* raw strings a client may put into a payload field (Undefined = field absent)
TextInputs == { Undefined, <<" ">>, <<"h", " ">> }
CustomCodeInputs == { Undefined, <<" ">>, <<"a">>, <<"A", " ">> }
\* join-room payloads: no fields; no teamCode; a name of blanks; the generated
\* code in lower case; a code no team has, with and without a name
JoinPayloads ==
  { [teamCode |-> Undefined, name |-> Undefined],
    [teamCode |-> Undefined, name |-> <<"x">>],
    [teamCode |-> <<" ", "a">>, name |-> <<"x", " ">>],
    [teamCode |-> <<"A">>, name |-> <<" ">>],
    [teamCode |-> <<"a", "a", "a", "a", "a", "a">>, name |-> <<"x">>],
    [teamCode |-> <<"b">>, name |-> <<" ", "x">>],
    [teamCode |-> <<"b", " ">>, name |-> Undefined] }
\* characters Math.random() selects in makeTeamCode during a run
GenChars == { "A" }

\* ------------------------------------------------------- JavaScript helpers
\* !v for a string or undefined
Falsy(v) == v = Undefined \/ v = <<>>

RECURSIVE TrimStart(_)
TrimStart(s) == IF s # <<>> /\ Head(s) = " " THEN TrimStart(Tail(s)) ELSE s

RECURSIVE TrimEnd(_)
TrimEnd(s) ==
  IF s # <<>> /\ s[Len(s)] = " " THEN TrimEnd(SubSeq(s, 1, Len(s) - 1)) ELSE s

\* String(v).trim()
Trim(s) == TrimEnd(TrimStart(s))

UpperChar(ch) == CASE ch = "a" -> "A" [] ch = "b" -> "B" [] OTHER -> ch

\* .toUpperCase()
ToUpperCase(s) == [i \in 1..Len(s) |-> UpperChar(s[i])]

\* .slice(0, n)
Slice(s, n) == SubSeq(s, 1, IF Len(s) < n THEN Len(s) ELSE n)

\* obj[k] || dflt for an object used as a map
Get(obj, k, dflt) == IF k \in DOMAIN obj THEN obj[k] ELSE dflt

\* obj[k] = v
Put(obj, k, v) == [x \in (DOMAIN obj) \cup {k} |-> IF x = k THEN v ELSE obj[x]]

\* mutant: the property is kept
DeleteNothing(obj, k) == obj

\* delete obj[k]
Delete(obj, k) == [x \in (DOMAIN obj) \ {k} |-> obj[x]]

Max(a, b) == IF a > b THEN a ELSE b

RECURSIVE SumLen(_, _)
SumLen(obj, keys) ==
  IF keys = {} THEN 0
  ELSE LET k == CHOOSE x \in keys : TRUE
       IN Len(obj[k]) + SumLen(obj, keys \ {k})

\* number of messages stored over all rooms
Stored(obj) == SumLen(obj, DOMAIN obj)

\* mutant: the idx === -1 test is missing, so splice(-1, 1) removes the last
\* element when no message has the id
FindIndexUnchecked(arr, id) ==
  IF \E i \in 1..Len(arr) : arr[i].id = id
  THEN CHOOSE i \in 1..Len(arr) :
         arr[i].id = id /\ \A j \in 1..(i - 1) : arr[j].id # id
  ELSE Len(arr)

RECURSIVE FindFrom(_, _, _)
FindFrom(arr, id, i) ==
  IF i > Len(arr) THEN 0
  ELSE IF arr[i].id = id THEN i ELSE FindFrom(arr, id, i + 1)

\* arr.findIndex(m => m.id === id); 0 stands for -1
FindIndex(arr, id) == FindFrom(arr, id, 1)

\* mutant: arr.unshift(m)
Unshift(arr, m) == <<m>> \o arr

\* mutant: the message is broadcast but not stored
PushNothing(arr, m) == arr

\* arr.push(m)
Push(arr, m) == Append(arr, m)

\* mutant: arr.splice(idx), which removes everything from idx on
SpliceTail(arr, idx) == SubSeq(arr, 1, idx - 1)

\* arr.splice(idx, 1)
Splice(arr, idx) == SubSeq(arr, 1, idx - 1) \o SubSeq(arr, idx + 1, Len(arr))

\* makeTeamCode(len): the codes the random draws of a run can produce
MakeTeamCode(len) == { [i \in 1..len |-> ch] : ch \in GenChars }

\* ------------------------------------------------------------------- state
VARIABLES
  teams,           \* teams: code -> [createdAt]
  roomMessages,    \* roomMessages: code -> sequence of messages
  roomUserCounts,  \* roomUserCounts: code -> number
  connected,       \* connected[c]: socket c is connected
  sockTeamCode,    \* socket.teamCode
  sockUserName,    \* socket.userName
  sockRooms,       \* socket.io rooms socket c has joined (socket.join)
  now,             \* Date.now()
  delivered,       \* delivered[c]: events emitted to c by the last handler
  last,            \* the last handler run, its arguments and its ack
  hist,            \* hist[code]: what the handlers have done to the room so far
  running,         \* the node process is alive
  view             \* view[c]: the message list client c has built

vars == << teams, roomMessages, roomUserCounts, connected, sockTeamCode,
           sockUserName, sockRooms, now, delivered, last, hist, running, view >>

\* History of a room since the server started, kept while no socket that
\* joined the room has disconnected and no delete-message has removed one of
\* its messages (tracked): joins and sends count the successful join-room and
\* send-message handlers on the room.
Fresh == [tracked |-> TRUE, joins |-> 0, sends |-> 0]
Lost  == [tracked |-> FALSE, joins |-> 0, sends |-> 0]

HistJoin(h, code) ==
  LET e == Get(h, code, Fresh)
  IN Put(h, code, IF e.tracked THEN [e EXCEPT !.joins = @ + 1] ELSE e)

HistSend(h, code) ==
  LET e == Get(h, code, Fresh)
  IN Put(h, code, IF e.tracked THEN [e EXCEPT !.sends = @ + 1] ELSE e)

HistDelete(h, code) == Put(h, code, Lost)

HistDisconnect(h, codes) ==
  [k \in (DOMAIN h) \cup codes |-> IF k \in codes THEN Lost ELSE h[k]]

NoDelivery == [c \in Conns |-> <<>>]

\* op: the handler; conn: its socket; code: the team code it names (join-room,
\* normalized when present) or the socket's teamCode (other handlers); id: the id
\* in the payload or of the message built; valid: the payload has the fields the
\* handler requires (teamCode and name, trimmed text, id); ok, error: the ack
Last(op, c, code, id, valid, ok, error) ==
  [op |-> op, conn |-> c, code |-> code, id |-> id, valid |-> valid,
   ok |-> ok, error |-> error]

\* 'sys-' + Date.now() + '-' + Math.floor(Math.random() * 1000)
SysId(r) == << "sys", now, r >>
\* 'm-' + Date.now() + '-' + Math.floor(Math.random() * 10000)
MsgId(r) == << "m", now, r >>

\* mutant: the notice is built without system: true
JoinNoticeUser(name, r) ==
  [id |-> SysId(r), system |-> FALSE, name |-> Undefined,
   text |-> name \o <<" joined the chat">>, ts |-> now]

JoinNotice(name, r) ==
  [id |-> SysId(r), system |-> TRUE, name |-> Undefined,
   text |-> name \o <<" joined the chat">>, ts |-> now]

LeaveNotice(name, r) ==
  [id |-> SysId(r), system |-> TRUE, name |-> Undefined,
   text |-> (IF Falsy(name) THEN <<"A user">> ELSE name) \o <<" left the chat">>,
   ts |-> now]

Msg(name, text, r) ==
  [id |-> MsgId(r), system |-> FALSE, name |-> name, text |-> text, ts |-> now]

\* mutant: io.emit, which reaches every socket
BroadcastAll(rooms, teamCode, ev) == [c \in Conns |-> <<ev>>]

\* io.to(teamCode).emit(ev): every socket currently in the socket.io room
Broadcast(rooms, teamCode, ev) ==
  [c \in Conns |-> IF teamCode \in rooms[c] THEN <<ev>> ELSE <<>>]

\* The list a client keeps: room-history replaces it, a message event is
\* appended, a delete-message event removes the first entry with that id.
ClientApply(list, ev) ==
  CASE ev.type = "room-history" -> ev.data
    [] ev.type = "message" -> Append(list, ev.data)
    [] ev.type = "delete-message" ->
         (IF FindFrom(list, ev.id, 1) = 0 THEN list
          ELSE SubSeq(list, 1, FindFrom(list, ev.id, 1) - 1)
               \o SubSeq(list, FindFrom(list, ev.id, 1) + 1, Len(list)))

RECURSIVE ClientApplyAll(_, _)
ClientApplyAll(list, evs) ==
  IF evs = <<>> THEN list
  ELSE ClientApplyAll(ClientApply(list, Head(evs)), Tail(evs))

\* view[c].joins: the successful joins of connection c, counted up to 2;
\* view[c].list: the client's list while c has joined exactly once
NoView == [joins |-> 0, list |-> <<>>]

\* the views after a handler, from the events it delivered
ViewAfter ==
  [c \in Conns |->
     LET joins == IF last'.op = "join-room" /\ last'.ok /\ last'.conn = c
                  THEN (IF view[c].joins < 2 THEN view[c].joins + 1 ELSE 2)
                  ELSE view[c].joins
     IN IF ~connected'[c] THEN NoView
        ELSE IF joins = 1
        THEN [joins |-> 1, list |-> ClientApplyAll(view[c].list, delivered'[c])]
        ELSE [joins |-> joins, list |-> <<>>]]

\* teams.json holds the team A, created at time 0; no socket has sent an event
Init ==
  /\ running = TRUE
  /\ view = [c \in Conns |-> NoView]
  /\ teams = Put(<< >>, <<"A">>, [createdAt |-> 0])
  /\ roomMessages = << >>
  /\ roomUserCounts = << >>
  /\ connected = [c \in Conns |-> TRUE]
  /\ sockTeamCode = [c \in Conns |-> Undefined]
  /\ sockUserName = [c \in Conns |-> Undefined]
  /\ sockRooms = [c \in Conns |-> {}]
  /\ now = 0
  /\ delivered = NoDelivery
  /\ last = Last("init", 0, Undefined, Undefined, FALSE, FALSE, "none")
  /\ hist = << >>

\* the clock read by Date.now() advances between handlers
Tick ==
  /\ running
  /\ now < MaxClock
  /\ now' = now + 1
  /\ delivered' = NoDelivery
  /\ last' = Last("tick", 0, Undefined, Undefined, FALSE, FALSE, "none")
  /\ UNCHANGED << teams, roomMessages, roomUserCounts, connected,
                  sockTeamCode, sockUserName, sockRooms, hist, running, view >>

\* mutant: the 409 test is missing
CodeTakenNever(customCode) == FALSE

\* customCode && teams[customCode]
CodeTaken(customCode) == ~Falsy(customCode) /\ customCode \in DOMAIN teams

\* mutant: teams = { [code]: ... }, which drops the other entries
AddTeamOnly(t, code) == Put(<< >>, code, [createdAt |-> now])

\* teams[code] = { createdAt: new Date().toISOString() }
AddTeam(t, code) == Put(t, code, [createdAt |-> now])

\* app.post('/create-team')
CreateTeam(customCodeIn) ==
  LET customCode == IF Falsy(customCodeIn) THEN customCodeIn
                    ELSE ToUpperCase(Trim(customCodeIn))
  IN
  /\ running
  /\ Cardinality(DOMAIN teams) < MaxTeams
  /\ delivered' = NoDelivery
  /\ UNCHANGED << roomMessages, roomUserCounts, connected, sockTeamCode,
                  sockUserName, sockRooms, now, hist, running, view >>
  /\ IF CodeTaken(customCode)
     THEN /\ last' = Last("create-team", 0, customCode, Undefined, TRUE, FALSE,
                          "Code already exists")
          /\ UNCHANGED teams
     ELSE \* while (!customCode && teams[code]) code = makeTeamCode(6)
          \E code \in (IF Falsy(customCode)
                       THEN MakeTeamCode(CodeLen) \ DOMAIN teams
                       ELSE {customCode}) :
            /\ teams' = AddTeam(teams, code)
            /\ last' = Last("create-team", 0, code, Undefined, TRUE, TRUE, "none")

\* mutant: the registry is not consulted
KnownTeamAlways(teamCode) == TRUE

\* teams[teamCode] is set
KnownTeam(teamCode) == teamCode \in DOMAIN teams

\* mutant: the counter is set to 1 instead of incremented
IncrCountReset(counts, teamCode) == Put(counts, teamCode, 1)

\* roomUserCounts[teamCode] = (roomUserCounts[teamCode] || 0) + 1
IncrCount(counts, teamCode) == Put(counts, teamCode, Get(counts, teamCode, 0) + 1)

\* mutant: the counter is cleared by any disconnect
DecrCountZero(counts, teamCode) == 0

\* Math.max(0, (roomUserCounts[teamCode] || 1) - 1)
DecrCount(counts, teamCode) ==
  Max(0, (IF Get(counts, teamCode, 0) = 0 THEN 1 ELSE counts[teamCode]) - 1)

\* mutant: the membership test is missing
NotInRoomNever(teamCode, name) == FALSE

\* !teamCode || !name
NotInRoom(teamCode, name) == Falsy(teamCode) \/ Falsy(name)

\* socket.on('join-room')
JoinRoom(c, teamCodeIn, nameIn, r) ==
  LET teamCode == ToUpperCase(Trim(teamCodeIn))
      name     == Slice(Trim(nameIn), NameMax)
      history  == Get(roomMessages, teamCode, <<>>)
      notice   == JoinNotice(name, r)
      rooms1   == [sockRooms EXCEPT ![c] = @ \cup {teamCode}]
      JoinValid == ~(Falsy(teamCodeIn) \/ Falsy(nameIn))
  IN
  /\ running /\ connected[c]
  /\ UNCHANGED << teams, connected, now, running >>
  /\ IF Falsy(teamCodeIn) \/ Falsy(nameIn)
     THEN /\ last' = Last("join-room", c,
                          IF Falsy(teamCodeIn) THEN Undefined ELSE teamCode,
                          Undefined, JoinValid, FALSE,
                          "Missing teamCode or name")
          /\ delivered' = NoDelivery
          /\ UNCHANGED << roomMessages, roomUserCounts, sockTeamCode,
                          sockUserName, sockRooms, hist >>
     ELSE IF ~KnownTeam(teamCode)
     THEN /\ last' = Last("join-room", c, teamCode, Undefined, JoinValid,
                          FALSE, "Team code not found")
          /\ delivered' = NoDelivery
          /\ UNCHANGED << roomMessages, roomUserCounts, sockTeamCode,
                          sockUserName, sockRooms, hist >>
     ELSE /\ Stored(roomMessages) < MaxLog
          /\ Get(roomUserCounts, teamCode, 0) < MaxCount
          /\ sockRooms' = rooms1
          /\ sockTeamCode' = [sockTeamCode EXCEPT ![c] = teamCode]
          /\ sockUserName' = [sockUserName EXCEPT ![c] = name]
          /\ roomUserCounts' = IncrCount(roomUserCounts, teamCode)
          /\ roomMessages' = Put(roomMessages, teamCode, Push(history, notice))
          /\ delivered' =
               [d \in Conns |->
                  (IF d = c THEN << [type |-> "room-history", data |-> history] >>
                   ELSE <<>>)
                  \o Broadcast(rooms1, teamCode,
                               [type |-> "message", data |-> notice])[d]]
          /\ last' = Last("join-room", c, teamCode, notice.id, JoinValid, TRUE,
                          "none")
          /\ hist' = HistJoin(hist, teamCode)
  /\ view' = ViewAfter

\* socket.on('send-message')
SendMessage(c, textIn, r) ==
  LET teamCode == sockTeamCode[c]
      name     == sockUserName[c]
      text     == IF Falsy(textIn) THEN <<>> ELSE Trim(textIn)
      msg      == Msg(name, text, r)
      log      == Get(roomMessages, teamCode, <<>>)
  IN
  /\ running /\ connected[c]
  /\ UNCHANGED << teams, roomUserCounts, connected, sockTeamCode,
                  sockUserName, sockRooms, now, running >>
  /\ IF NotInRoom(teamCode, name)
     THEN /\ last' = Last("send-message", c, teamCode, Undefined,
                          ~Falsy(text), FALSE, "You are not in a room")
          /\ delivered' = NoDelivery
          /\ UNCHANGED << roomMessages, hist >>
     ELSE IF Falsy(text)
     THEN /\ last' = Last("send-message", c, teamCode, Undefined,
                          ~Falsy(text), FALSE, "Empty message")
          /\ delivered' = NoDelivery
          /\ UNCHANGED << roomMessages, hist >>
     ELSE /\ Stored(roomMessages) < MaxLog
          /\ roomMessages' = Put(roomMessages, teamCode, Push(log, msg))
          /\ delivered' = Broadcast(sockRooms, teamCode,
                                    [type |-> "message", data |-> msg])
          /\ last' = Last("send-message", c, teamCode, msg.id, ~Falsy(text),
                          TRUE, "none")
          /\ hist' = HistSend(hist, teamCode)
  /\ view' = ViewAfter

\* socket.on('delete-message')
DeleteMessage(c, id) ==
  LET teamCode == sockTeamCode[c]
      arr      == Get(roomMessages, teamCode, <<>>)
      idx      == FindIndex(arr, id)
  IN
  /\ running /\ connected[c]
  /\ UNCHANGED << teams, roomUserCounts, connected, sockTeamCode,
                  sockUserName, sockRooms, now, running >>
  /\ IF Falsy(teamCode)
     THEN /\ last' = Last("delete-message", c, teamCode, id, ~Falsy(id), FALSE,
                          "Not in room")
          /\ delivered' = NoDelivery
          /\ UNCHANGED << roomMessages, hist >>
     ELSE IF Falsy(id)
     THEN /\ last' = Last("delete-message", c, teamCode, id, ~Falsy(id), FALSE, "No id")
          /\ delivered' = NoDelivery
          /\ UNCHANGED << roomMessages, hist >>
     ELSE IF idx = 0
     THEN /\ last' = Last("delete-message", c, teamCode, id, ~Falsy(id), FALSE,
                          "Message not found")
          /\ delivered' = NoDelivery
          /\ roomMessages' = Put(roomMessages, teamCode, arr)
          /\ UNCHANGED hist
     ELSE /\ roomMessages' = Put(roomMessages, teamCode, Splice(arr, idx))
          /\ delivered' = Broadcast(sockRooms, teamCode,
                                    [type |-> "delete-message", id |-> id])
          /\ last' = Last("delete-message", c, teamCode, id, ~Falsy(id), TRUE,
                          "none")
          /\ hist' = HistDelete(hist, teamCode)
  /\ view' = ViewAfter

\* socket.on('disconnect'); socket.io has removed the socket from all of its
\* rooms before the handler runs
Disconnect(c, r) ==
  LET teamCode == sockTeamCode[c]
      name     == sockUserName[c]
      count    == DecrCount(roomUserCounts, teamCode)
      notice   == LeaveNotice(name, r)
      rooms1   == [sockRooms EXCEPT ![c] = {}]
  IN
  /\ running /\ connected[c]
  /\ connected' = [connected EXCEPT ![c] = FALSE]
  /\ sockRooms' = rooms1
  \* the socket object is dropped with the connection
  /\ sockTeamCode' = [sockTeamCode EXCEPT ![c] = Undefined]
  /\ sockUserName' = [sockUserName EXCEPT ![c] = Undefined]
  /\ UNCHANGED << teams, now, running >>
  /\ hist' = HistDisconnect(hist, sockRooms[c])
  /\ IF Falsy(teamCode)
     THEN /\ last' = Last("disconnect", c, teamCode, Undefined, TRUE, FALSE, "none")
          /\ delivered' = NoDelivery
          /\ UNCHANGED << roomMessages, roomUserCounts >>
     ELSE /\ roomUserCounts' = Put(roomUserCounts, teamCode, count)
          /\ last' = Last("disconnect", c, teamCode, notice.id, TRUE, FALSE, "none")
          /\ IF count > 0
             THEN /\ roomMessages' =
                       Put(roomMessages, teamCode,
                           Push(Get(roomMessages, teamCode, <<>>), notice))
                  /\ delivered' = Broadcast(rooms1, teamCode,
                                            [type |-> "message", data |-> notice])
             ELSE /\ roomMessages' = Delete(roomMessages, teamCode)
                  /\ delivered' = NoDelivery
  /\ view' = ViewAfter

\* A join-room or delete-message event without a payload: destructuring
\* undefined in the handler's parameter list throws, nothing catches it and
\* the process exits.  Its memory is gone; teams.json stays on disk.
Crash(c, op) ==
  /\ running /\ connected[c]
  /\ running' = FALSE
  /\ roomMessages' = << >>
  /\ roomUserCounts' = << >>
  /\ connected' = [d \in Conns |-> FALSE]
  /\ sockTeamCode' = [d \in Conns |-> Undefined]
  /\ sockUserName' = [d \in Conns |-> Undefined]
  /\ sockRooms' = [d \in Conns |-> {}]
  /\ delivered' = NoDelivery
  \* no ack is sent; last.error names the event whose handler threw
  /\ last' = Last("crash", c, Undefined, Undefined, FALSE, FALSE, op)
  /\ hist' = << >>
  /\ view' = [d \in Conns |-> NoView]
  /\ UNCHANGED << teams, now >>

\* ids a client may name in a delete-message payload: absent, an id no
\* message ever has, or the id of a message stored in some room
IdInputs ==
  { Undefined, <<"m", 0 - 1, 0>> } \cup
  UNION { { roomMessages[k][i].id : i \in 1..Len(roomMessages[k]) } :
          k \in DOMAIN roomMessages }

Next ==
  \/ Tick
  \/ \E cc \in CustomCodeInputs : CreateTeam(cc)
  \/ \E c \in Conns, p \in JoinPayloads, r \in Rands :
       JoinRoom(c, p.teamCode, p.name, r)
  \/ \E c \in Conns, t \in TextInputs, r \in Rands : SendMessage(c, t, r)
  \/ \E c \in Conns, id \in IdInputs : DeleteMessage(c, id)
  \/ \E c \in Conns, r \in Rands : Disconnect(c, r)
  \/ \E c \in Conns, op \in {"join-room", "delete-message"} : Crash(c, op)

Spec == Init /\ [][Next]_vars

\* ------------------------------------------------------ claim vocabulary
\* the connected sessions whose teamCode is code
MembersOf(conn, tc, code) == { c \in Conns : conn[c] /\ tc[c] = code }
Members(code) == MembersOf(connected, sockTeamCode, code)

\* the message log of a room, empty when the room has none
Log(obj, code) == Get(obj, code, <<>>)

RoomCodes == DOMAIN teams \cup DOMAIN roomUserCounts \cup DOMAIN roomMessages

\* connection c has had a join acknowledged ok and has not disconnected
Joined(c) == connected[c] /\ sockTeamCode[c] # Undefined

HasId(log, id) == \E i \in 1..Len(log) : log[i].id = id

SysCount(log)  == Cardinality({ i \in 1..Len(log) : log[i].system })
ChatCount(log) == Cardinality({ i \in 1..Len(log) : ~log[i].system })

MessageEvent(m) == [type |-> "message", data |-> m]
HistoryEvent(log) == [type |-> "room-history", data |-> log]
DeleteEvent(id) == [type |-> "delete-message", id |-> id]

NoEventOfType(evs, t) == \A i \in 1..Len(evs) : evs[i].type # t

\* the step ran handler op on behalf of socket c
Ran(op, c) == last'.op = op /\ last'.conn = c

\* C1: in every reachable state the memberCount of each room equals the number
\* of connected sessions whose teamCode is that room's code.
C1_MemberCountEqualsSessions ==
  \A code \in RoomCodes :
    Get(roomUserCounts, code, 0) = Cardinality(Members(code))

\* C2: once a connection's teamCode has been set by a successful join, no later
\* event on that connection changes it, and no later join-room on it succeeds.
C2_TeamCodeNeverChanges ==
  [][\A c \in Conns :
       Joined(c) /\ connected'[c] =>
         /\ sockTeamCode'[c] = sockTeamCode[c]
         /\ ~(Ran("join-room", c) /\ last'.ok)]_vars

\* C3: a disconnect that leaves a room without any connected session of that
\* teamCode leaves the room's log empty, and a successful join to that code
\* right after it receives an empty room-history followed by its join notice.
C3_LastLeaverClearsLog ==
  [][/\ (last'.op = "disconnect" /\ ~Falsy(last'.code)
         /\ MembersOf(connected', sockTeamCode', last'.code) = {})
        => Log(roomMessages', last'.code) = <<>>
     /\ (last.op = "disconnect" /\ ~Falsy(last.code) /\ Members(last.code) = {}
         /\ last'.op = "join-room" /\ last'.ok /\ last'.code = last.code)
        => /\ Len(delivered'[last'.conn]) = 2
           /\ delivered'[last'.conn][1] = HistoryEvent(<<>>)
           /\ delivered'[last'.conn][2].type = "message"
           /\ delivered'[last'.conn][2].data.id = last'.id]_vars

\* C4: a join-room with both fields present and a registered code increments
\* the room's memberCount by one, sends the joining socket (and nobody else) a
\* room-history equal to the log before the join, appends one system join notice
\* at the end of the log, delivers that notice as a message event to every
\* member including the joiner, and acknowledges ok.
C4_JoinEffect ==
  [][\A c \in Conns :
       LET code == last'.code
           old  == Log(roomMessages, code)
           new  == Log(roomMessages', code)
       IN (Ran("join-room", c) /\ last'.valid /\ code \in DOMAIN teams) =>
            /\ last'.ok
            /\ sockTeamCode'[c] = code
            /\ Get(roomUserCounts', code, 0) = Get(roomUserCounts, code, 0) + 1
            /\ Len(new) = Len(old) + 1
            /\ SubSeq(new, 1, Len(old)) = old
            /\ new[Len(new)].system
            /\ new[Len(new)].id = last'.id
            /\ delivered'[c] = << HistoryEvent(old), MessageEvent(new[Len(new)]) >>
            /\ \A d \in Conns \ {c} :
                 /\ NoEventOfType(delivered'[d], "room-history")
                 /\ d \in MembersOf(connected', sockTeamCode', code)
                      => delivered'[d] = << MessageEvent(new[Len(new)]) >>]_vars

\* a join has just succeeded into a room that already had a member and a
\* non-empty log; the other member received the notice
C4_Witness ==
  /\ last.op = "join-room" /\ last.ok
  /\ Len(delivered[last.conn]) = 2
  /\ Len(delivered[last.conn][1].data) >= 1
  /\ \E d \in Members(last.code) \ {last.conn} : Len(delivered[d]) = 1

\* C5 as stated: a join-room naming a code that is not in the registry is
\* acknowledged ok:false with "Team code not found", changes no room and no
\* session, and delivers nothing.
C5_UnknownTeamAlwaysNotFound ==
  [][\A c \in Conns :
       (Ran("join-room", c) /\ last'.code # Undefined
        /\ last'.code \notin DOMAIN teams) =>
         /\ ~last'.ok /\ last'.error = "Team code not found"
         /\ roomMessages' = roomMessages /\ roomUserCounts' = roomUserCounts
         /\ sockTeamCode' = sockTeamCode /\ sockUserName' = sockUserName
         /\ delivered' = NoDelivery]_vars

\* C5 amended: a join-room with teamCode and name both present, naming a code
\* that is not in the registry, is acknowledged ok:false with "Team code not
\* found"; with a field missing it is acknowledged ok:false with "Missing
\* teamCode or name"; either way no room and no session changes and nothing is
\* delivered.
C5_UnknownTeamRejected ==
  [][\A c \in Conns :
       (Ran("join-room", c)
        /\ (last'.code = Undefined \/ last'.code \notin DOMAIN teams)) =>
         /\ ~last'.ok
         /\ last'.error = (IF last'.valid THEN "Team code not found"
                           ELSE "Missing teamCode or name")
         /\ roomMessages' = roomMessages /\ roomUserCounts' = roomUserCounts
         /\ sockTeamCode' = sockTeamCode /\ sockUserName' = sockUserName
         /\ sockRooms' = sockRooms
         /\ delivered' = NoDelivery]_vars

\* a complete join-room payload naming an unregistered code was just rejected
\* while some room holds messages and members
C5_Witness ==
  /\ last.op = "join-room" /\ last.valid /\ last.code \notin DOMAIN teams
  /\ last.error = "Team code not found"
  /\ \E k \in DOMAIN roomMessages : roomMessages[k] # <<>> /\ Members(k) # {}

\* C6: a send-message with non-empty trimmed text on a connection whose join
\* was acknowledged ok and that has not disconnected is acknowledged ok, appends
\* one message at the end of its room's log and delivers it to the room.
C6_JoinedSendSucceeds ==
  [][\A c \in Conns :
       LET code == sockTeamCode[c]
           old  == Log(roomMessages, code)
           new  == Log(roomMessages', code)
       IN (Ran("send-message", c) /\ last'.valid /\ Joined(c)) =>
            /\ last'.ok
            /\ last'.error # "You are not in a room"
            /\ Len(new) = Len(old) + 1
            /\ SubSeq(new, 1, Len(old)) = old
            /\ \A d \in Members(code) :
                 delivered'[d] = << MessageEvent(new[Len(new)]) >>]_vars

\* C7: a send-message on a connection that has never joined is acknowledged
\* ok:false with "You are not in a room", appends nothing to any log and
\* delivers nothing.
C7_SendBeforeJoinRejected ==
  [][\A c \in Conns :
       (Ran("send-message", c) /\ sockTeamCode[c] = Undefined) =>
         /\ ~last'.ok /\ last'.error = "You are not in a room"
         /\ roomMessages' = roomMessages
         /\ delivered' = NoDelivery]_vars

\* a never-joined socket has just had a send-message with text rejected while
\* another socket is in a room with messages
C7_Witness ==
  /\ last.op = "send-message" /\ last.valid
  /\ last.error = "You are not in a room"
  /\ sockTeamCode[last.conn] = Undefined
  /\ \E k \in DOMAIN roomMessages : roomMessages[k] # <<>> /\ Members(k) # {}

\* C8: a delete-message by a joined session naming an id present in its room's
\* log is acknowledged ok, removes one message with that id, keeps the other
\* messages in order, leaves every memberCount and every other room unchanged,
\* and delivers a delete-message notice carrying only the id to every member.
C8_DeleteEffect ==
  [][\A c \in Conns :
       LET code == sockTeamCode[c]
           old  == Log(roomMessages, code)
           new  == Log(roomMessages', code)
           id   == last'.id
       IN (Ran("delete-message", c) /\ Joined(c) /\ last'.valid
           /\ HasId(old, id)) =>
            /\ last'.ok
            /\ \E i \in 1..Len(old) :
                 /\ old[i].id = id
                 /\ new = [j \in 1..(Len(old) - 1) |->
                             IF j < i THEN old[j] ELSE old[j + 1]]
            /\ roomUserCounts' = roomUserCounts
            /\ \A k \in (RoomCodes \cup DOMAIN roomMessages') \ {code} :
                 Log(roomMessages', k) = Log(roomMessages, k)
            /\ \A d \in Members(code) : delivered'[d] = << DeleteEvent(id) >>]_vars

\* a delete has just succeeded in a room with two members, both were notified
\* and a message remains in the log
C8_Witness ==
  /\ last.op = "delete-message" /\ last.ok
  /\ Cardinality(Members(last.code)) = 2
  /\ \A d \in Members(last.code) : delivered[d] = << DeleteEvent(last.id) >>
  /\ Len(Log(roomMessages, last.code)) >= 1

\* C9: a delete-message by a joined session naming an id that is not in the log
\* of its own room is acknowledged ok:false with "Message not found", leaves
\* every room's log unchanged and delivers no delete-message notice.
C9_DeleteUnknownIdRejected ==
  [][\A c \in Conns :
       LET code == sockTeamCode[c]
       IN (Ran("delete-message", c) /\ Joined(c) /\ last'.valid
           /\ ~HasId(Log(roomMessages, code), last'.id)) =>
            /\ ~last'.ok /\ last'.error = "Message not found"
            /\ \A k \in RoomCodes \cup DOMAIN roomMessages' :
                 Log(roomMessages', k) = Log(roomMessages, k)
            /\ \A d \in Conns :
                 NoEventOfType(delivered'[d], "delete-message")]_vars

\* a delete was just rejected as not found although another room's log holds a
\* message with the id named
C9_Witness ==
  /\ last.op = "delete-message" /\ last.error = "Message not found"
  /\ connected[last.conn] /\ Log(roomMessages, last.code) # <<>>
  /\ \E k \in DOMAIN roomMessages \ {last.code} : HasId(roomMessages[k], last.id)

\* C10 as stated: while no socket that joined a room has disconnected, after
\* any join-room, send-message or delete-message the room's memberCount is the
\* number of joins to it and its log holds that many join notices plus one
\* message per successful send.
C10_JoinsAndSendsWithoutDisconnect ==
  [][\A code \in DOMAIN hist :
       LET j == hist[code].joins
                + (IF last'.op = "join-room" /\ last'.ok /\ last'.code = code
                   THEN 1 ELSE 0)
           s == hist[code].sends
                + (IF last'.op = "send-message" /\ last'.ok /\ last'.code = code
                   THEN 1 ELSE 0)
           new == Log(roomMessages', code)
       IN (hist[code].tracked
           /\ last'.op \in {"join-room", "send-message", "delete-message"}) =>
            /\ Get(roomUserCounts', code, 0) = j
            /\ SysCount(new) = j
            /\ ChatCount(new) = s]_vars

\* C10 amended: while no socket that joined a room has disconnected and no
\* delete-message has removed a message of the room, its memberCount is the
\* number of successful joins to it and its log holds exactly that many join
\* notices plus one message per successful send.
C10_JoinsAndSendsCounted ==
  \A code \in DOMAIN hist :
    hist[code].tracked =>
      /\ Get(roomUserCounts, code, 0) = hist[code].joins
      /\ SysCount(Log(roomMessages, code)) = hist[code].joins
      /\ ChatCount(Log(roomMessages, code)) = hist[code].sends
      /\ Len(Log(roomMessages, code)) = hist[code].joins + hist[code].sends

\* a room has been joined and used twice without disconnect or delete
C10_Witness ==
  \E code \in DOMAIN hist :
    /\ hist[code].tracked
    /\ hist[code].joins >= 1
    /\ hist[code].joins + hist[code].sends >= 2

\* the message events among evs
MessageEvents(evs) == SelectSeq(evs, LAMBDA e : e.type = "message")

\* the events of type message or delete-message among evs
BroadcastEvents(evs) ==
  SelectSeq(evs, LAMBDA e : e.type \in {"message", "delete-message"})

\* the step broadcast to the room of the team code last'.code
BroadcastStep ==
  \/ last'.op \in {"join-room", "send-message", "delete-message"} /\ last'.ok
  \/ last'.op = "disconnect" /\ ~Falsy(last'.code)
     /\ Get(roomUserCounts', last'.code, 0) > 0

\* C11: in every reachable state no two messages of one room's log have the
\* same id.
C11_IdsUniqueInLog ==
  \A code \in DOMAIN roomMessages :
    \A i, j \in 1..Len(roomMessages[code]) :
      i # j => roomMessages[code][i].id # roomMessages[code][j].id

\* C12: every broadcast for a team code is delivered exactly once to each
\* connected session whose teamCode is that code and to no other connection.
C12_BroadcastToMembersOnly ==
  [][BroadcastStep =>
       \A d \in Conns :
         Len(BroadcastEvents(delivered'[d])) =
           (IF d \in MembersOf(connected', sockTeamCode', last'.code)
            THEN 1 ELSE 0)]_vars

\* C13: no client event stops the server: after every join-room, send-message
\* or delete-message event, a payload-less one included, the process is still
\* running.
C13_NoEventFatal == running

\* C14: a create-team request whose normalized customCode is already in the
\* registry is answered 409 "Code already exists" and leaves the registry,
\* hence the entry's createdAt, as it was.
C14_ExistingCodeConflict ==
  [][(last'.op = "create-team" /\ last'.code \in DOMAIN teams) =>
       /\ ~last'.ok
       /\ last'.error = "Code already exists"
       /\ teams' = teams]_vars

\* a create-team for a registered code was just refused, later than the
\* creation of that entry
C14_Witness ==
  /\ last.op = "create-team" /\ ~last.ok
  /\ last.error = "Code already exists"
  /\ last.code \in DOMAIN teams
  /\ teams[last.code].createdAt < now

\* the step emptied the room last'.code and discarded its log
RoomEmptied ==
  /\ last'.op = "disconnect" /\ ~Falsy(last'.code)
  /\ Get(roomUserCounts', last'.code, 0) = 0

\* C15: no step removes a team entry or changes its createdAt; a room that
\* empties keeps its registry entry, and a complete join-room naming a
\* registered code is acknowledged ok.
C15_TeamEntryPermanent ==
  [][/\ \A code \in DOMAIN teams :
          code \in DOMAIN teams' /\ teams'[code] = teams[code]
     /\ RoomEmptied => /\ last'.code \in DOMAIN teams'
                       /\ last'.code \notin DOMAIN roomMessages'
     /\ (last'.op = "join-room" /\ last'.valid /\ last'.code \in DOMAIN teams)
          => last'.ok]_vars

\* a socket has just joined, as its only member, a registered room that had
\* members before and was emptied, while a second team exists
C15_Witness ==
  /\ Cardinality(DOMAIN teams) > 1
  /\ last.op = "join-room" /\ last.ok
  /\ last.code \in DOMAIN teams
  /\ Get(hist, last.code, Fresh) = Lost
  /\ Get(roomUserCounts, last.code, 0) = 1
  /\ Len(Log(roomMessages, last.code)) = 1

\* C16: when a joined session disconnects and the room's resulting memberCount
\* is positive, the log gains exactly one system leave notice at its end and
\* is otherwise unchanged; the notice is delivered to every remaining member
\* and nothing is delivered to the disconnecting connection.
C16_LeaveNotice ==
  [][\A c \in Conns :
       (Ran("disconnect", c) /\ ~Falsy(last'.code)
        /\ Get(roomUserCounts', last'.code, 0) > 0) =>
         LET code == last'.code
             log  == Log(roomMessages, code)
             log2 == Log(roomMessages', code)
         IN /\ Len(log2) = Len(log) + 1
            /\ SubSeq(log2, 1, Len(log)) = log
            /\ \E r \in Rands : log2[Len(log2)] = LeaveNotice(sockUserName[c], r)
            /\ log2[Len(log2)].system
            /\ \A other \in DOMAIN roomMessages \ {code} :
                 Log(roomMessages', other) = roomMessages[other]
            /\ delivered'[c] = <<>>
            /\ \A d \in MembersOf(connected', sockTeamCode', code) :
                 delivered'[d] = << MessageEvent(log2[Len(log2)]) >>]_vars

\* a session has just left a room that keeps a member, who received the notice
C16_Witness ==
  /\ last.op = "disconnect" /\ ~Falsy(last.code)
  /\ Get(roomUserCounts, last.code, 0) > 0
  /\ \E d \in Members(last.code) :
       /\ Len(delivered[d]) = 1
       /\ delivered[d][1].type = "message"
       /\ delivered[d][1].data.system
       /\ delivered[d][1].data.id = last.id

C18_CountCoversMembers ==
  /\ [](\A code \in RoomCodes :
          Get(roomUserCounts, code, 0) >= Cardinality(Members(code)))
  /\ [][last'.op = "disconnect" =>
          \A code \in DOMAIN roomMessages :
            MembersOf(connected', sockTeamCode', code) # {} =>
              /\ code \in DOMAIN roomMessages'
              /\ Len(roomMessages'[code]) >= Len(roomMessages[code])]_vars

\* a session has just left a room that keeps a member and its log, while the
\* counter of some room exceeds its sessions after a repeated join
C18_Witness ==
  /\ last.op = "disconnect" /\ ~Falsy(last.code)
  /\ Members(last.code) # {}
  /\ Log(roomMessages, last.code) # <<>>
  /\ \E code \in RoomCodes :
       Get(roomUserCounts, code, 0) > Cardinality(Members(code))

\* C19: a room whose memberCount is zero or was never set stores no message.
C19_EmptyRoomHasNoLog ==
  \A code \in RoomCodes :
    Get(roomUserCounts, code, 0) = 0 => Log(roomMessages, code) = <<>>

\* the last member of a room has left: its counter is zero and its log is gone,
\* while another room still stores messages
C19_Witness ==
  /\ last.op = "disconnect" /\ ~Falsy(last.code)
  /\ last.code \in DOMAIN roomUserCounts
  /\ roomUserCounts[last.code] = 0
  /\ last.code \notin DOMAIN roomMessages
  /\ Stored(roomMessages) > 0

\* C20: for a connection that joined exactly once and is still connected, the
\* list built from its room-history, the message events appended and the first
\* match of each delete-message id removed, equals the server's log of its room.
C20_ClientViewEqualsLog ==
  \A c \in Conns :
    (connected[c] /\ view[c].joins = 1) =>
      view[c].list = Log(roomMessages, sockTeamCode[c])

\* another connection has just deleted a message of the room of a connection
\* that joined once, whose list still holds a message
C20_Witness ==
  /\ last.op = "delete-message" /\ last.ok
  /\ \E c \in Conns \ {last.conn} :
       /\ connected[c] /\ view[c].joins = 1
       /\ sockTeamCode[c] = last.code
       /\ Len(delivered[c]) = 1
       /\ Len(view[c].list) >= 1

====
